---- MODULE Spec2Model ----
(***************************************************************************)
(* Model of note_generator.py: the chunk-by-chunk note generation loop     *)
(* (generate_notes), its progress.json checkpoint, and the command line    *)
(* driver (main) that decides resume / start over and writes               *)
(* academic_notes.txt.                                                     *)
(*                                                                         *)
(* Text is modelled as a sequence of tokens (a token is a TLA+ string), so *)
(* that concatenation and the substring test `x in notes` are computed     *)
(* structurally.  In the generation loop a transcript chunk is one token;  *)
(* chunk_text is modelled on its own (SpecChunk) over texts that are       *)
(* sequences of single characters.                                         *)
(***************************************************************************)
EXTENDS Integers, Sequences, FiniteSets, TLC

\* ---------------------------------------------------------------- bounds
MaxChunks == 3
MaxRuns == 3
MaxTextLen == 4
MaxSize == 3

\* def chunk_text(text, max_chunk_size: int = 8000)
DefaultMaxChunkSize == 8000

\* ------------------------------------------------------------ input sets
Urls == {"u1", "u2"}
NoUrl == ""
ChunkTexts == {"lecture", "An error occurred"}

\* ------------------------------------------------------------------ text
\* The literal tested by main and produced by generate_notes' outer handler.
ErrorMarker == <<"An error occurred">>

\* Python's `sub in s` on strings.
Contains(sub, s) ==
  \E k \in 0..(Len(s) - Len(sub)) : SubSeq(s, k + 1, k + Len(sub)) = sub

\* f"An error occurred: {e}"
ErrorText(e) == ErrorMarker \o <<": ", e>>

\* ------------------------------------------------------- progress.json
Absent == [kind |-> "absent"]
\* The file after open(..., "w") and before json.dump has completed: empty
\* or a proper prefix of a JSON object; json.load raises on both.
Truncated == [kind |-> "truncated"]
NoResume == [kind |-> "none"]

ProgressMutIndex(url, chunks, doc, current_chunk_index) ==
  [kind |-> "json", video_url |-> url, transcript_chunks |-> chunks,
   notes |-> doc, chunk_index |-> current_chunk_index]

Progress(url, chunks, doc, current_chunk_index) ==
  [kind |-> "json", video_url |-> url, transcript_chunks |-> chunks,
   notes |-> doc, chunk_index |-> current_chunk_index + 1]

\* ------------------------------------------------------ generation step
CurrentChunkIndexMutRelative(start, k) == k

CurrentChunkIndex(start, k) == start + k

SliceMutWhole(chunks, start) == chunks

\* transcript_chunks[start_chunk:]
Slice(chunks, start) == SubSeq(chunks, start + 1, Len(chunks))

PromptMutAlwaysContinue(current_chunk_index, doc, chunk) ==
  [kind |-> "PROMPT_CONTINUE", existing_notes |-> doc,
   new_transcript_chunk |-> chunk]

Prompt(current_chunk_index, doc, chunk) ==
  IF current_chunk_index = 0
    THEN [kind |-> "PROMPT_START", chunk |-> chunk]
    ELSE [kind |-> "PROMPT_CONTINUE", existing_notes |-> doc,
          new_transcript_chunk |-> chunk]

\* A deterministic generation model: the response is the notes so far
\* (when the prompt carries them) extended by the new chunk's content.
Stub(prompt) ==
  IF prompt.kind = "PROMPT_START"
    THEN <<prompt.chunk>>
    ELSE Append(prompt.existing_notes, prompt.new_transcript_chunk)

\* The Document of one uninterrupted run over chunks[1..n] from index 0.
RECURSIVE FoldGen(_, _)
FoldGen(chunks, n) ==
  IF n = 0 THEN <<>>
  ELSE Stub(Prompt(n - 1, FoldGen(chunks, n - 1), chunks[n]))

\* Results of get_transcript + preprocess_transcript + chunk_text: chunk_text
\* always flushes a non-empty trailing buffer, so the list is never empty.
FetchedChunkSequences ==
  UNION {[1..n -> ChunkTexts] : n \in 1..MaxChunks}

\* ----------------------------------------------------------------- state
VARIABLES
  file,              \* progress.json
  outfile,           \* academic_notes.txt
  pc,                \* position of the process
  run,               \* number of the current invocation of main
  video_url, resume_data,
  transcript_chunks, notes, start_chunk, i,
  result,            \* which return of generate_notes was taken
  error,             \* what the inner handler caught
  ret,               \* value returned by generate_notes
  exit,              \* how main ended
  calls,             \* generate_content invocations of this run
  \* chunk_text
  text, max_chunk_size,
  sentences,         \* text.split(".")
  next_sentence,     \* number of sentences the for loop has consumed
  current_chunk,
  chunk_list,        \* the local `chunks` of chunk_text
  groups,            \* per closed chunk, the positions of the sentences in it
  current_group,     \* positions of the sentences in current_chunk
  cpc                \* position inside chunk_text

cvars == <<text, max_chunk_size, sentences, next_sentence, current_chunk,
           chunk_list, groups, current_group, cpc>>

mvars == <<file, outfile, pc, run, video_url, resume_data, transcript_chunks,
           notes, start_chunk, i, result, error, ret, exit, calls>>

vars == <<mvars, cvars>>

locals == <<transcript_chunks, notes, start_chunk, i>>

\* chunk_text has not been entered; max_chunk_size holds its default.
ChunkIdle ==
  /\ text = <<>>
  /\ max_chunk_size = DefaultMaxChunkSize
  /\ sentences = <<>>
  /\ next_sentence = 0
  /\ current_chunk = <<>>
  /\ chunk_list = <<>>
  /\ groups = <<>>
  /\ current_group = <<>>
  /\ cpc = "idle"

MainInit ==
  /\ file = Absent
  /\ outfile = Absent
  /\ pc = "main"
  /\ run = 1
  /\ video_url = NoUrl
  /\ resume_data = NoResume
  /\ transcript_chunks = <<>>
  /\ notes = <<>>
  /\ start_chunk = 0
  /\ i = 0
  /\ result = "Running"
  /\ error = "none"
  /\ ret = <<>>
  /\ exit = "running"
  /\ calls = <<>>

Init == MainInit /\ ChunkIdle

Cur == CurrentChunkIndex(start_chunk, i)

\* ------------------------------------------------------------------ main
\* main, lines 177-209, with a progress.json that json.load cannot parse.
MainLoadCrash ==
  /\ pc = "main"
  /\ file.kind = "truncated"
  /\ pc' = "exited"
  /\ exit' = "crash"
  /\ UNCHANGED <<file, outfile, run, video_url, resume_data, locals,
                 result, error, ret, calls>>
  /\ UNCHANGED cvars

\* A plausible slip: on resume the URL of the progress record is not taken
\* over (line 198 missing).
MainStartMutKeepsArgUrl(arg, choice, typed) ==
  /\ pc = "main"
  /\ file.kind # "truncated"
  /\ IF file.kind = "json"
       THEN IF arg = NoUrl \/ arg = file.video_url
              THEN IF choice = "r"
                     THEN /\ resume_data' = file
                          /\ video_url' = arg
                          /\ file' = file
                     ELSE /\ resume_data' = NoResume
                          /\ video_url' = (IF arg = NoUrl THEN typed ELSE arg)
                          /\ file' = Absent
              ELSE /\ resume_data' = NoResume
                   /\ video_url' = arg
                   /\ file' = Absent
       ELSE /\ resume_data' = NoResume
            /\ video_url' = (IF arg = NoUrl THEN typed ELSE arg)
            /\ file' = file
  /\ pc' = "gen"
  /\ UNCHANGED <<outfile, run, locals, result, error, ret, exit, calls>>
  /\ UNCHANGED cvars

\* A plausible slip: the record of another video is not removed (line 205
\* missing).
MainStartMutKeepsOtherCheckpoint(arg, choice, typed) ==
  /\ pc = "main"
  /\ file.kind # "truncated"
  /\ IF file.kind = "json"
       THEN IF arg = NoUrl \/ arg = file.video_url
              THEN IF choice = "r"
                     THEN /\ resume_data' = file
                          /\ video_url' = file.video_url
                          /\ file' = file
                     ELSE /\ resume_data' = NoResume
                          /\ video_url' = (IF arg = NoUrl THEN typed ELSE arg)
                          /\ file' = Absent
              ELSE /\ resume_data' = NoResume
                   /\ video_url' = arg
                   /\ file' = file
       ELSE /\ resume_data' = NoResume
            /\ video_url' = (IF arg = NoUrl THEN typed ELSE arg)
            /\ file' = file
  /\ pc' = "gen"
  /\ UNCHANGED <<outfile, run, locals, result, error, ret, exit, calls>>
  /\ UNCHANGED cvars

\* main, lines 177-209: arg is the command line URL (or none), choice the
\* answer to the resume prompt, typed the URL entered when none is known.
MainStart(arg, choice, typed) ==
  /\ pc = "main"
  /\ file.kind # "truncated"
  /\ IF file.kind = "json"
       THEN IF arg = NoUrl \/ arg = file.video_url
              THEN IF choice = "r"
                     THEN /\ resume_data' = file
                          /\ video_url' = file.video_url
                          /\ file' = file
                     ELSE /\ resume_data' = NoResume
                          /\ video_url' = (IF arg = NoUrl THEN typed ELSE arg)
                          /\ file' = Absent
              ELSE /\ resume_data' = NoResume
                   /\ video_url' = arg
                   /\ file' = Absent
       ELSE /\ resume_data' = NoResume
            /\ video_url' = (IF arg = NoUrl THEN typed ELSE arg)
            /\ file' = file
  /\ pc' = "gen"
  /\ UNCHANGED <<outfile, run, locals, result, error, ret, exit, calls>>
  /\ UNCHANGED cvars

\* ------------------------------------------------------- generate_notes
ApiKeyMissing ==
  /\ pc = "gen"
  /\ ret' = ErrorText("GEMINI_API_KEY environment variable not set.")
  /\ result' = "Fatal"
  /\ pc' = "returned"
  /\ UNCHANGED <<file, outfile, run, video_url, resume_data, locals,
                 error, exit, calls>>
  /\ UNCHANGED cvars

ResumeLoadMutResetNotes ==
  /\ pc = "gen"
  /\ resume_data.kind = "json"
  /\ transcript_chunks' = resume_data.transcript_chunks
  /\ notes' = <<>>
  /\ start_chunk' = resume_data.chunk_index
  /\ i' = 0
  /\ pc' = "loop"
  /\ UNCHANGED <<file, outfile, run, video_url, resume_data, result, error,
                 ret, exit, calls>>
  /\ UNCHANGED cvars

ResumeLoad ==
  /\ pc = "gen"
  /\ resume_data.kind = "json"
  /\ transcript_chunks' = resume_data.transcript_chunks
  /\ notes' = resume_data.notes
  /\ start_chunk' = resume_data.chunk_index
  /\ i' = 0
  /\ pc' = "loop"
  /\ UNCHANGED <<file, outfile, run, video_url, resume_data, result, error,
                 ret, exit, calls>>
  /\ UNCHANGED cvars

FetchOk(chunks) ==
  /\ pc = "gen"
  /\ resume_data.kind = "none"
  /\ transcript_chunks' = chunks
  /\ notes' = <<>>
  /\ start_chunk' = 0
  /\ i' = 0
  /\ pc' = "loop"
  /\ UNCHANGED <<file, outfile, run, video_url, resume_data, result, error,
                 ret, exit, calls>>
  /\ UNCHANGED cvars

\* A plausible slip: the fetch failure is handled like a failed chunk and the
\* (empty) notes are returned instead of the error text.
FetchFailMutReturnsNotes ==
  /\ pc = "gen"
  /\ resume_data.kind = "none"
  /\ ret' = notes
  /\ result' = "Fatal"
  /\ pc' = "returned"
  /\ UNCHANGED <<file, outfile, run, video_url, resume_data, locals,
                 error, exit, calls>>
  /\ UNCHANGED cvars

FetchFail ==
  /\ pc = "gen"
  /\ resume_data.kind = "none"
  /\ ret' = ErrorText("An error occurred: transcript")
  /\ result' = "Fatal"
  /\ pc' = "returned"
  /\ UNCHANGED <<file, outfile, run, video_url, resume_data, locals,
                 error, exit, calls>>
  /\ UNCHANGED cvars

\* model.generate_content(prompt) returns and response.text is assigned.
GenerateOk ==
  /\ pc = "loop"
  /\ i < Len(Slice(transcript_chunks, start_chunk))
  /\ LET chunk == Slice(transcript_chunks, start_chunk)[i + 1]
         prompt == Prompt(Cur, notes, chunk)
     IN /\ notes' = Stub(prompt)
        /\ calls' = Append(calls, [index |-> Cur, prompt |-> prompt])
  /\ pc' = "save_open"
  /\ UNCHANGED <<file, outfile, run, video_url, resume_data,
                 transcript_chunks, start_chunk, i, result, error, ret, exit>>
  /\ UNCHANGED cvars

\* A plausible slip: the handler that prints "Saving progress and exiting."
\* really saves a progress record for the failed chunk.
GenerateFailMutSaves ==
  /\ pc = "loop"
  /\ i < Len(Slice(transcript_chunks, start_chunk))
  /\ LET chunk == Slice(transcript_chunks, start_chunk)[i + 1]
         prompt == Prompt(Cur, notes, chunk)
     IN calls' = Append(calls, [index |-> Cur, prompt |-> prompt])
  /\ file' = Progress(video_url, transcript_chunks, notes, Cur)
  /\ error' = "generation"
  /\ result' = "PartiallyFailed"
  /\ ret' = notes
  /\ pc' = "returned"
  /\ UNCHANGED <<outfile, run, video_url, resume_data, locals, exit>>
  /\ UNCHANGED cvars

\* model.generate_content(prompt) (or response.text) raises.
GenerateFail ==
  /\ pc = "loop"
  /\ i < Len(Slice(transcript_chunks, start_chunk))
  /\ LET chunk == Slice(transcript_chunks, start_chunk)[i + 1]
         prompt == Prompt(Cur, notes, chunk)
     IN calls' = Append(calls, [index |-> Cur, prompt |-> prompt])
  /\ error' = "generation"
  /\ result' = "PartiallyFailed"
  /\ ret' = notes
  /\ pc' = "returned"
  /\ UNCHANGED <<file, outfile, run, video_url, resume_data, locals, exit>>
  /\ UNCHANGED cvars

\* open("progress.json", "w") succeeds: the file is truncated.
SaveOpen ==
  /\ pc = "save_open"
  /\ file' = Truncated
  /\ pc' = "save_dump"
  /\ UNCHANGED <<outfile, run, video_url, resume_data, locals, result,
                 error, ret, exit, calls>>
  /\ UNCHANGED cvars

\* open("progress.json", "w") raises: the file is untouched.
SaveOpenFail ==
  /\ pc = "save_open"
  /\ error' = "save_open"
  /\ result' = "PartiallyFailed"
  /\ ret' = notes
  /\ pc' = "returned"
  /\ UNCHANGED <<file, outfile, run, video_url, resume_data, locals, exit,
                 calls>>
  /\ UNCHANGED cvars

\* json.dump and the close of the file succeed; next loop iteration.
SaveDump ==
  /\ pc = "save_dump"
  /\ file' = Progress(video_url, transcript_chunks, notes, Cur)
  /\ i' = i + 1
  /\ pc' = "loop"
  /\ UNCHANGED <<outfile, run, video_url, resume_data, transcript_chunks,
                 notes, start_chunk, result, error, ret, exit, calls>>
  /\ UNCHANGED cvars

\* json.dump (or the flush on close) raises after the file was truncated.
SaveDumpFail ==
  /\ pc = "save_dump"
  /\ error' = "save_dump"
  /\ result' = "PartiallyFailed"
  /\ ret' = notes
  /\ pc' = "returned"
  /\ UNCHANGED <<file, outfile, run, video_url, resume_data, locals, exit,
                 calls>>
  /\ UNCHANGED cvars

\* The for loop is exhausted: `return notes` at line 169.
LoopExit ==
  /\ pc = "loop"
  /\ i = Len(Slice(transcript_chunks, start_chunk))
  /\ result' = "Completed"
  /\ ret' = notes
  /\ pc' = "returned"
  /\ UNCHANGED <<file, outfile, run, video_url, resume_data, locals, error,
                 exit, calls>>
  /\ UNCHANGED cvars

\* The process is killed or interrupted from the keyboard while in the loop
\* (KeyboardInterrupt is not an Exception, so no handler catches it).
Interrupt ==
  /\ pc \in {"loop", "save_open", "save_dump"}
  /\ pc' = "exited"
  /\ exit' = "killed"
  /\ UNCHANGED <<file, outfile, run, video_url, resume_data, locals, result,
                 error, ret, calls>>
  /\ UNCHANGED cvars

\* main, lines 211-221.
MainFinish ==
  /\ pc = "returned"
  /\ IF ~Contains(ErrorMarker, ret)
       THEN /\ outfile' = [kind |-> "text", text |-> ret]
            /\ file' = Absent
            /\ exit' = "success"
       ELSE /\ exit' = "error"
            /\ UNCHANGED <<file, outfile>>
  /\ pc' = "exited"
  /\ UNCHANGED <<run, video_url, resume_data, locals, result, error, ret,
                 calls>>
  /\ UNCHANGED cvars

\* The user runs the program again.
Restart ==
  /\ pc = "exited"
  /\ run < MaxRuns
  /\ run' = run + 1
  /\ pc' = "main"
  /\ video_url' = NoUrl
  /\ resume_data' = NoResume
  /\ transcript_chunks' = <<>>
  /\ notes' = <<>>
  /\ start_chunk' = 0
  /\ i' = 0
  /\ result' = "Running"
  /\ error' = "none"
  /\ ret' = <<>>
  /\ exit' = "running"
  /\ calls' = <<>>
  /\ UNCHANGED <<file, outfile>>
  /\ UNCHANGED cvars

Next ==
  \/ MainLoadCrash
  \/ \E arg \in Urls \cup {NoUrl}, choice \in {"r", "s"}, typed \in Urls :
       MainStart(arg, choice, typed)
  \/ ApiKeyMissing
  \/ ResumeLoad
  \/ \E chunks \in FetchedChunkSequences : FetchOk(chunks)
  \/ FetchFail
  \/ GenerateOk
  \/ GenerateFail
  \/ SaveOpen
  \/ SaveOpenFail
  \/ SaveDump
  \/ SaveDumpFail
  \/ LoopExit
  \/ Interrupt
  \/ MainFinish
  \/ Restart

Spec == Init /\ [][Next]_vars

\* The steps of generate_notes' loop; each generation call and each save
\* returns, with a result or an exception.
RunStep ==
  \/ GenerateOk
  \/ GenerateFail
  \/ SaveOpen
  \/ SaveOpenFail
  \/ SaveDump
  \/ SaveDumpFail
  \/ LoopExit

SpecLive == Init /\ [][Next]_vars /\ WF_vars(RunStep)

\* ------------------------------------------------------------ chunk_text
\* Text handled by chunk_text is a sequence of one-character strings.
Delimiter == "."
Chars == {"a", "b", Delimiter}

RECURSIVE Split(_)
\* text.split(".")
Split(t) ==
  IF \A p \in 1..Len(t) : t[p] # Delimiter THEN <<t>>
  ELSE LET p == CHOOSE q \in 1..Len(t) :
                  /\ t[q] = Delimiter
                  /\ \A r \in 1..(q - 1) : t[r] # Delimiter
       IN <<SubSeq(t, 1, p - 1)>> \o Split(SubSeq(t, p + 1, Len(t)))

FitsMutInclusive(current, sentence, max) ==
  Len(current) + Len(sentence) <= max

\* len(current_chunk) + len(sentence) < max_chunk_size
Fits(current, sentence, max) ==
  Len(current) + Len(sentence) < max

ScenarioA ==
  <<"H", "e", "l", "l", "o", " ", "w", "o", "r", "l", "d", ".", " ", "T",
  "h", "i", "s", " ", "i", "s", " ", "a", " ", "t", "e", "s", "t", ".">>

ScenarioB ==
  <<"A", "A", "A", "A", "A", "A", "A", "A", "A", "A", ".", " ", "B", ".">>

BoundedTexts == UNION {[1..n -> Chars] : n \in 0..MaxTextLen}

ChunkInputs ==
  (BoundedTexts \X (1..MaxSize)) \cup {<<ScenarioA, 1000>>, <<ScenarioB, 10>>}

\* Entry of chunk_text(text, max_chunk_size), lines 72-74.
InitChunk ==
  /\ MainInit
  /\ \E input \in ChunkInputs :
       /\ text = input[1]
       /\ max_chunk_size = input[2]
  /\ sentences = Split(text)
  /\ next_sentence = 0
  /\ current_chunk = <<>>
  /\ chunk_list = <<>>
  /\ groups = <<>>
  /\ current_group = <<>>
  /\ cpc = "loop"

\* Lines 75-76: the sentence is added to the running buffer.
ChunkAppend ==
  /\ cpc = "loop"
  /\ next_sentence < Len(sentences)
  /\ LET sentence == sentences[next_sentence + 1]
     IN /\ Fits(current_chunk, sentence, max_chunk_size)
        /\ current_chunk' = current_chunk \o sentence \o <<Delimiter>>
  /\ current_group' = Append(current_group, next_sentence + 1)
  /\ next_sentence' = next_sentence + 1
  /\ UNCHANGED <<text, max_chunk_size, sentences, chunk_list, groups, cpc>>
  /\ UNCHANGED mvars

\* A plausible slip: the new buffer is started empty and the sentence that
\* did not fit is lost.
ChunkCloseMutDropsUnit ==
  /\ cpc = "loop"
  /\ next_sentence < Len(sentences)
  /\ LET sentence == sentences[next_sentence + 1]
     IN /\ ~Fits(current_chunk, sentence, max_chunk_size)
        /\ current_chunk' = <<Delimiter>>
  /\ chunk_list' = Append(chunk_list, current_chunk)
  /\ groups' = Append(groups, current_group)
  /\ current_group' = <<next_sentence + 1>>
  /\ next_sentence' = next_sentence + 1
  /\ UNCHANGED <<text, max_chunk_size, sentences, cpc>>
  /\ UNCHANGED mvars

\* Lines 77-79: the buffer is closed and a new one starts with the sentence.
ChunkClose ==
  /\ cpc = "loop"
  /\ next_sentence < Len(sentences)
  /\ LET sentence == sentences[next_sentence + 1]
     IN /\ ~Fits(current_chunk, sentence, max_chunk_size)
        /\ current_chunk' = sentence \o <<Delimiter>>
  /\ chunk_list' = Append(chunk_list, current_chunk)
  /\ groups' = Append(groups, current_group)
  /\ current_group' = <<next_sentence + 1>>
  /\ next_sentence' = next_sentence + 1
  /\ UNCHANGED <<text, max_chunk_size, sentences, cpc>>
  /\ UNCHANGED mvars

\* Lines 80-82: flush of a non-empty trailing buffer and return.
ChunkFlush ==
  /\ cpc = "loop"
  /\ next_sentence = Len(sentences)
  /\ IF current_chunk # <<>>
       THEN /\ chunk_list' = Append(chunk_list, current_chunk)
            /\ groups' = Append(groups, current_group)
       ELSE UNCHANGED <<chunk_list, groups>>
  /\ cpc' = "done"
  /\ UNCHANGED <<text, max_chunk_size, sentences, next_sentence,
                 current_chunk, current_group>>
  /\ UNCHANGED mvars

NextChunk ==
  \/ ChunkAppend
  \/ ChunkClose
  \/ ChunkFlush

SpecChunk == InitChunk /\ [][NextChunk]_vars

RECURSIVE Concat(_)
Concat(ss) == IF ss = <<>> THEN <<>> ELSE Head(ss) \o Concat(Tail(ss))

NotDelimiter(c) == c # Delimiter
RemoveDelimiters(t) == SelectSeq(t, NotDelimiter)

\* The text of the sentences at positions g, each followed by its delimiter.
RECURSIVE JoinUnits(_)
JoinUnits(g) ==
  IF g = <<>> THEN <<>>
  ELSE sentences[Head(g)] \o <<Delimiter>> \o JoinUnits(Tail(g))

\* ------------------------------------------------------------ properties
CommittedCheckpoint(n) ==
  IF n = 0 THEN Absent
  ELSE [kind |-> "json", video_url |-> video_url,
        transcript_chunks |-> transcript_chunks,
        notes |-> FoldGen(transcript_chunks, n), chunk_index |-> n]

\* C1: when generate_notes returns because the generation call for chunk
\* Cur failed, the calls of the run were exactly start_chunk..Cur (none
\* later), the returned Document is the Document of chunks 0..Cur-1 (empty
\* if none), and progress.json is the record saved for next-index Cur
\* (absent when Cur = 0).
C1_GenerationFailureKeepsCheckpoint ==
  (pc = "returned" /\ result = "PartiallyFailed" /\ error = "generation") =>
    /\ Len(calls) = i + 1
    /\ \A k \in 1..Len(calls) : calls[k].index = start_chunk + k - 1
    /\ calls[Len(calls)].index = Cur
    /\ ret = FoldGen(transcript_chunks, Cur)
    /\ file = CommittedCheckpoint(Cur)

C1_Witness ==
  /\ pc = "returned" /\ result = "PartiallyFailed" /\ error = "generation"
  /\ start_chunk = 0 /\ Cur = 2 /\ Len(transcript_chunks) = 3

\* C2: after an invocation of main that ended PartiallyFailed because the
\* generation call for chunk Cur >= 1 failed, progress.json still exists at
\* program exit and holds next-index = Cur.
C2_CheckpointSurvivesPartialFailure ==
  (/\ pc = "exited" /\ exit \in {"success", "error"}
   /\ result = "PartiallyFailed" /\ error = "generation" /\ Cur >= 1) =>
    (file.kind = "json" /\ file.chunk_index = Cur)

\* C3: main writes academic_notes.txt and reports success only when
\* generate_notes ran the loop to the end (every chunk succeeded).
C3_OutputOnlyOnCompletion ==
  exit = "success" => result = "Completed"

\* C4: a resumed run that completes returns the Document of one
\* uninterrupted run over the same chunk sequence from index 0.
C4_ResumeEqualsUninterrupted ==
  (pc = "returned" /\ result = "Completed" /\ resume_data.kind = "json") =>
    ret = FoldGen(transcript_chunks, Len(transcript_chunks))

C4_Witness ==
  /\ pc = "returned" /\ result = "Completed" /\ resume_data.kind = "json"
  /\ start_chunk = 1 /\ Len(transcript_chunks) = 3 /\ Len(calls) = 2

\* C5: every parsable progress.json has next-index at most the length of
\* its chunk list and holds the Document of chunks 0..next-index-1.
C5_CheckpointInvariant ==
  file.kind = "json" =>
    /\ file.chunk_index <= Len(file.transcript_chunks)
    /\ file.notes = FoldGen(file.transcript_chunks, file.chunk_index)

C5_Witness ==
  /\ file.kind = "json" /\ resume_data.kind = "json"
  /\ start_chunk >= 1 /\ file.chunk_index > start_chunk

\* C6: when the generation of the final chunk succeeded and the loop ran
\* to its end, the returned Document is the Document of all chunks and
\* progress.json is absent once main has finished.
C6_CompletedClearsCheckpoint ==
  (/\ pc = "exited" /\ exit \in {"success", "error"}
   /\ result = "Completed" /\ calls # <<>>) =>
    /\ ret = FoldGen(transcript_chunks, Len(transcript_chunks))
    /\ file = Absent

\* C7: the k-th generation call of a run is for chunk start_chunk + k - 1,
\* and every call after the first is made while progress.json holds the
\* record with that next-index and the previous step's output.
C7_OrderedAfterCheckpoint ==
  [][Len(calls') > Len(calls) =>
       LET c == calls'[Len(calls')]
       IN /\ Len(calls') = Len(calls) + 1
          /\ c.index = start_chunk + Len(calls)
          /\ (Len(calls) >= 1 =>
                /\ file.kind = "json"
                /\ file.chunk_index = c.index
                /\ file.notes = notes
                /\ c.prompt.kind = "PROMPT_CONTINUE"
                /\ c.prompt.existing_notes = file.notes)]_vars

C7_Witness ==
  /\ Len(calls) >= 2 /\ start_chunk >= 1
  /\ calls[2].index = calls[1].index + 1

\* C8: a progress.json that cannot be parsed never makes main crash.
C8_CorruptCheckpointDegrades ==
  exit # "crash"

\* C9: whoever reads progress.json at the start of main finds a complete
\* record or none, never a truncated one.
C9_SaveAtomic ==
  pc = "main" => file.kind # "truncated"

\* C10: when the save after a successful generation of chunk Cur fails,
\* generate_notes returns the last committed Document (chunks 0..Cur-1) and
\* progress.json still holds the valid record for next-index = Cur.
C10_SaveFailureLikeGenerationFailure ==
  (/\ pc = "returned" /\ result = "PartiallyFailed"
   /\ error \in {"save_open", "save_dump"}) =>
    /\ ret = FoldGen(transcript_chunks, Cur)
    /\ file = CommittedCheckpoint(Cur)

\* C11: when a fresh run ends before the loop (the transcript could not be
\* fetched, or no API key), the error text is returned, no generation call
\* was made, progress.json does not exist and main does not write
\* academic_notes.txt.
C11_FetchFailureIsFatal ==
  (/\ pc \in {"returned", "exited"} /\ result = "Fatal"
   /\ resume_data.kind = "none") =>
    /\ Contains(ErrorMarker, ret)
    /\ calls = <<>>
    /\ file = Absent
    /\ exit \in {"running", "error"}

C11_Witness ==
  /\ pc = "exited" /\ result = "Fatal" /\ resume_data.kind = "none"
  /\ ret = ErrorText("An error occurred: transcript")
  /\ exit = "error" /\ run >= 2

\* C12: the chunks returned by chunk_text, concatenated in order and with
\* every '.' removed, are the input text with every '.' removed.
C12_ChunksReconstructText ==
  cpc = "done" =>
    RemoveDelimiters(Concat(chunk_list)) = RemoveDelimiters(text)

C12_Witness ==
  /\ cpc = "done" /\ Len(chunk_list) >= 3
  /\ RemoveDelimiters(text) = <<"a", "b", "a">>

\* C13: chunk_text of the empty text returns no chunk.
C13_EmptyTextNoChunks ==
  (cpc = "done" /\ text = <<>>) => chunk_list = <<>>

\* C14: a non-empty text shorter than max_chunk_size comes back as exactly
\* one chunk equal to the text.
C14_ShortTextSingleChunk ==
  (cpc = "done" /\ text # <<>> /\ Len(text) < max_chunk_size) =>
    chunk_list = <<text>>

\* C15: for max_chunk_size = 10 and the text "AAAAAAAAAA. B." the result
\* is the two chunks "AAAAAAAAAA." and " B.".
C15_ScenarioB ==
  (cpc = "done" /\ text = ScenarioB /\ max_chunk_size = 10) =>
    chunk_list = <<SubSeq(ScenarioB, 1, 11), SubSeq(ScenarioB, 12, 14)>>

\* Every sentence is, whole and with its delimiter, in exactly one chunk.
UnitsWhole ==
  /\ Len(groups) = Len(chunk_list)
  /\ \A j \in 1..Len(chunk_list) : chunk_list[j] = JoinUnits(groups[j])
  /\ \A u \in 1..Len(sentences) :
       Cardinality({<<j, q>> \in (1..Len(groups)) \X (1..Len(sentences)) :
                      q <= Len(groups[j]) /\ groups[j][q] = u}) = 1

\* C16 as claimed: a chunk longer than max_chunk_size consists of exactly
\* one unit longer than max_chunk_size, and such a unit is alone in its
\* chunk.
C16_OversizedOnlyFromLongerUnit ==
  cpc = "done" =>
    /\ UnitsWhole
    /\ \A j \in 1..Len(chunk_list) :
         /\ (Len(chunk_list[j]) > max_chunk_size =>
               /\ Len(groups[j]) = 1
               /\ Len(sentences[groups[j][1]]) > max_chunk_size)
         /\ \A q \in 1..Len(groups[j]) :
              Len(sentences[groups[j][q]]) > max_chunk_size =>
                Len(groups[j]) = 1

\* C16 (amended): for max_chunk_size >= 1, every unit is whole in exactly
\* one chunk, a unit of length at least max_chunk_size is alone in its
\* chunk, and a chunk longer than max_chunk_size consists of exactly one
\* unit of length at least max_chunk_size followed by its delimiter.
C16_OversizedOnlyFromUnitAtLeastMax ==
  (cpc = "done" /\ max_chunk_size >= 1) =>
    /\ UnitsWhole
    /\ \A j \in 1..Len(chunk_list) :
         /\ (Len(chunk_list[j]) > max_chunk_size =>
               /\ Len(groups[j]) = 1
               /\ Len(sentences[groups[j][1]]) >= max_chunk_size)
         /\ \A q \in 1..Len(groups[j]) :
              Len(sentences[groups[j][q]]) >= max_chunk_size =>
                Len(groups[j]) = 1

C16_Witness ==
  /\ cpc = "done" /\ max_chunk_size = 2
  /\ \E j \in 1..Len(chunk_list) :
       /\ Len(chunk_list[j]) = 3
       /\ Len(groups[j]) = 1
  /\ \E j \in 1..Len(chunk_list) :
       /\ Len(chunk_list[j]) = 2
       /\ Len(groups[j]) = 1

LoopPcs == {"loop", "save_open", "save_dump"}

\* C17: the call for chunk index 0 carries the chunk only; the call for an
\* index >= 1 carries the current Document (the checkpoint's notes on the
\* first call of a resumed run, else the previous call's response) and the
\* chunk of that index; after a call, notes is the call's response.
C17_PromptSeeding ==
  /\ \A k \in 1..Len(calls) :
       LET c == calls[k]
           chunk == transcript_chunks[c.index + 1]
       IN IF c.index = 0
            THEN c.prompt = [kind |-> "PROMPT_START", chunk |-> chunk]
            ELSE c.prompt =
                   [kind |-> "PROMPT_CONTINUE",
                    existing_notes |->
                      IF k = 1 THEN resume_data.notes
                      ELSE Stub(calls[k - 1].prompt),
                    new_transcript_chunk |-> chunk]
  /\ pc = "save_open" => notes = Stub(calls[Len(calls)].prompt)

C17_Witness ==
  /\ pc = "save_open" /\ resume_data.kind = "json" /\ Len(calls) = 2
  /\ calls[1].prompt.existing_notes = resume_data.notes
  /\ Len(notes) = 3

\* C18: a resumed run takes chunk list, notes and index from the record as
\* they are; chunk list and URL do not change while a run is in the loop;
\* every record written holds the run's chunk list and URL, which on a
\* resumed run are those of the record it resumed from.
C18_ChunksAndSourceFixed ==
  [][/\ (pc = "gen" /\ resume_data.kind = "json" /\ pc' = "loop") =>
          /\ transcript_chunks' = resume_data.transcript_chunks
          /\ notes' = resume_data.notes
          /\ start_chunk' = resume_data.chunk_index
          /\ video_url' = resume_data.video_url
     /\ (pc \in LoopPcs /\ pc' \in LoopPcs \cup {"returned"}) =>
          /\ transcript_chunks' = transcript_chunks
          /\ video_url' = video_url
     /\ (file' # file /\ file'.kind = "json") =>
          /\ file'.transcript_chunks = transcript_chunks
          /\ file'.video_url = video_url
          /\ resume_data.kind = "json" =>
               /\ file'.transcript_chunks = resume_data.transcript_chunks
               /\ file'.video_url = resume_data.video_url
               /\ file'.chunk_index > resume_data.chunk_index
               /\ file'.notes # resume_data.notes]_vars

C18_Witness ==
  /\ resume_data.kind = "json" /\ file.kind = "json" /\ file # resume_data
  /\ file.transcript_chunks = resume_data.transcript_chunks
  /\ video_url = "u2"

\* C19: a run without resume data starts with no progress.json, and while
\* a run is in progress a parsable progress.json carries the run's URL.
C19_CheckpointBelongsToJob ==
  pc \in {"gen"} \cup LoopPcs \cup {"returned"} =>
    /\ (resume_data.kind = "none" /\ pc = "gen") => file = Absent
    /\ resume_data.kind = "json" => video_url = resume_data.video_url
    /\ file.kind = "json" => file.video_url = video_url

C19_Witness ==
  /\ pc = "loop" /\ resume_data.kind = "none" /\ run >= 2
  /\ file.kind = "json" /\ file.video_url = "u2" /\ outfile = Absent

\* C20: a run makes at most len(transcript_chunks) - start_chunk generation
\* calls, never two for the same chunk; a resumed run that reaches the loop
\* with start_chunk = len(transcript_chunks) makes none and returns the
\* record's notes; and once in the loop a run always returns (or the
\* process ends).
C20_RunTerminates ==
  /\ [](/\ Len(calls) <= Len(transcript_chunks) - start_chunk
        /\ \A j, k \in 1..Len(calls) :
             j # k => calls[j].index # calls[k].index
        /\ pc = "returned" =>
             result \in {"Completed", "PartiallyFailed", "Fatal"}
        /\ (/\ pc = "returned" /\ resume_data.kind = "json"
            /\ result # "Fatal"
            /\ start_chunk = Len(transcript_chunks)) =>
             /\ calls = <<>>
             /\ result = "Completed"
             /\ ret = resume_data.notes)
  /\ (pc \in LoopPcs) ~> (pc \in {"returned", "exited"})

C20_Witness ==
  /\ pc = "returned" /\ resume_data.kind = "json" /\ result = "Completed"
  /\ start_chunk = Len(transcript_chunks) /\ start_chunk = 2

====
